---------------------------- MODULE Spec2Model ----------------------------
(***************************************************************************)
(* Model of the anti-fraud document analyser (src/src/document_analyzer.py)*)
(* and of the Streamlit handler that drives it (src/app.py).               *)
(*                                                                         *)
(* Text is a sequence of one-character strings.  The validators are        *)
(* operators that return "True", "False" or the name of the exception they *)
(* raise.  A date is <<year, month, day>>; the clock value is the date of  *)
(* datetime.now() (a parsed date is at 00:00, so `date <= now` compares    *)
(* the dates alone).                                                       *)
(***************************************************************************)
EXTENDS Integers, Sequences, FiniteSets, TLC

VARIABLES
    pc,              \* position of the handler main() of app.py
    doc_client,      \* self.doc_client is set
    openai_client,   \* self.openai_client is set
    tmp_files,       \* temporary files that exist on disk
    extracted_data,  \* extracted_data of analyze_document
    validation,      \* validation_results of analyze_document
    fraud_analysis,  \* fraud_analysis of analyze_document
    result,          \* the report returned to main()
    error,           \* the exception in flight or caught, "none" if none
    displayed,       \* the widgets main() has rendered for this request
    calls,           \* collaborator calls made: <<extraction, generation>>
    arg,             \* argument of a validator or scorer called on its own
    ret              \* what that call returned

uiVars == <<pc, doc_client, openai_client, tmp_files, extracted_data,
            validation, fraud_analysis, result, error, displayed, calls>>
fnVars == <<arg, ret>>
vars == <<uiVars, fnVars>>

---------------------------------------------------------------------------
(* Characters and strings                                                  *)

DecimalDigits == <<"0", "1", "2", "3", "4", "5", "6", "7", "8", "9">>

\* int(c) of a decimal digit character
IntOf(c) == (CHOOSE k \in 1..10 : DecimalDigits[k] = c) - 1

IsDecimal(c) == \E k \in 1..10 : DecimalDigits[k] = c

\* "²" stands for the characters str.isdigit accepts and int() rejects
Superscripts == {"²"}

\* str.isdigit on one character
IsDigit(c) == IsDecimal(c) \/ c \in Superscripts

UpperLetters == <<"A", "B", "C", "D", "E", "F", "G", "H", "I", "J", "K", "L", "M",
                  "N", "O", "P", "Q", "R", "S", "T", "U", "V", "W", "X", "Y", "Z">>
LowerLetters == <<"a", "b", "c", "d", "e", "f", "g", "h", "i", "j", "k", "l", "m",
                  "n", "o", "p", "q", "r", "s", "t", "u", "v", "w", "x", "y", "z">>

\* str.lower
Lower(s) ==
    [k \in 1..Len(s) |->
        IF \E u \in 1..26 : UpperLetters[u] = s[k]
        THEN LowerLetters[CHOOSE u \in 1..26 : UpperLetters[u] = s[k]]
        ELSE s[k]]

\* needle in hay
Contains(hay, needle) ==
    \E k \in 1..(Len(hay) - Len(needle) + 1) :
        SubSeq(hay, k, k + Len(needle) - 1) = needle

Whitespace == {" "}

\* str.strip
Strip(s) ==
    LET keep == {k \in 1..Len(s) : s[k] \notin Whitespace}
    IN  IF keep = {} THEN <<>>
        ELSE SubSeq(s, CHOOSE k \in keep : \A j \in keep : k <= j,
                       CHOOSE k \in keep : \A j \in keep : k >= j)

---------------------------------------------------------------------------
(* _validate_cpf and _validate_cnpj                                        *)

CpfLength == 11
CnpjLength == 14

RECURSIVE WeightedSum(_, _, _)
\* sum(int(cpf[j]) * ((i + 1) - j) for j in range(n)), positions 0-based
WeightedSum(cpf, i, n) ==
    IF n = 0 THEN 0
    ELSE WeightedSum(cpf, i, n - 1) + IntOf(cpf[n]) * ((i + 1) - (n - 1))

\* the check digit expected at 0-based position i
CheckDigit(cpf, i) == ((WeightedSum(cpf, i, i) * 10) % 11) % 10

RECURSIVE CpfLoopFirstDigitOnly(_, _)
\* the loop written `for i in range(9, 10)`: the second check digit is not read
CpfLoopFirstDigitOnly(cpf, i) ==
    IF i > 9 THEN "True"
    ELSE IF \E j \in 1..(i + 1) : ~IsDecimal(cpf[j]) THEN "ValueError"
    ELSE IF IntOf(cpf[i + 1]) # CheckDigit(cpf, i) THEN "False"
    ELSE CpfLoopFirstDigitOnly(cpf, i + 1)

RECURSIVE CpfLoop(_, _)
\* the loop `for i in range(9, 11)` from position i on
CpfLoop(cpf, i) ==
    IF i > 10 THEN "True"
    ELSE IF \E j \in 1..(i + 1) : ~IsDecimal(cpf[j]) THEN "ValueError"
    ELSE IF IntOf(cpf[i + 1]) # CheckDigit(cpf, i) THEN "False"
    ELSE CpfLoop(cpf, i + 1)

ValidateCpf(raw) ==
    LET cpf == SelectSeq(raw, IsDigit)
    IN  IF Len(cpf) # CpfLength \/ (\A k \in 1..Len(cpf) : cpf[k] = cpf[1])
        THEN "False"
        ELSE CpfLoop(cpf, 9)

ValidateCnpj(raw) ==
    LET cnpj == SelectSeq(raw, IsDigit)
    IN  IF Len(cnpj) # CnpjLength THEN "False" ELSE "True"

---------------------------------------------------------------------------
(* _validate_date: datetime.strptime and the comparison with the clock     *)

NoDate == <<>>

\* formats of _validate_date, in the order it tries them
Formats == << <<"%d", "/", "%m", "/", "%Y">>,
              <<"%Y", "-", "%m", "-", "%d">>,
              <<"%d", "-", "%m", "-", "%Y">>,
              <<"%m", "/", "%d", "/", "%Y">> >>

At(s, p) == IF p >= 1 /\ p <= Len(s) THEN s[p] ELSE "EOF"

NonZero(c) == IsDecimal(c) /\ c # "0"

\* Number of characters the directive's pattern takes at position p of s,
\* 0 when it does not match there.  The alternatives are tried in the order
\* of _strptime.TimeRE:
\*   %d  3[0-1]|[1-2]\d|0[1-9]|[1-9]| [1-9]
\*   %m  1[0-2]|0[1-9]|[1-9]
\*   %Y  \d\d\d\d
Take(directive, s, p) ==
    LET a == At(s, p)
        b == At(s, p + 1)
    IN  CASE directive = "%d" ->
                 IF a = "3" /\ b \in {"0", "1"} THEN 2
                 ELSE IF a \in {"1", "2"} /\ IsDecimal(b) THEN 2
                 ELSE IF a = "0" /\ NonZero(b) THEN 2
                 ELSE IF NonZero(a) THEN 1
                 ELSE IF a = " " /\ NonZero(b) THEN 2
                 ELSE 0
          [] directive = "%m" ->
                 IF a = "1" /\ b \in {"0", "1", "2"} THEN 2
                 ELSE IF a = "0" /\ NonZero(b) THEN 2
                 ELSE IF NonZero(a) THEN 1
                 ELSE 0
          [] directive = "%Y" ->
                 IF \A k \in 0..3 : IsDecimal(At(s, p + k)) THEN 4 ELSE 0
          [] OTHER -> IF a = directive THEN 1 ELSE 0

RECURSIVE NumberOf(_)
\* int() of the text a directive matched (int ignores the leading blank)
NumberOf(t) ==
    IF t = <<>> THEN 0
    ELSE IF t[Len(t)] = " " THEN NumberOf(SubSeq(t, 1, Len(t) - 1))
    ELSE 10 * NumberOf(SubSeq(t, 1, Len(t) - 1)) + IntOf(t[Len(t)])

RECURSIVE Scan(_, _, _, _, _)
\* Match directives k.. of fmt against s from position p on; found maps the
\* directives matched so far to their numbers.  NoDate when the pattern does
\* not match or text is left over ("unconverted data remains").
Scan(s, fmt, k, p, found) ==
    IF k > Len(fmt)
    THEN IF p = Len(s) + 1 THEN found ELSE NoDate
    ELSE LET n == Take(fmt[k], s, p)
         IN  IF n = 0 THEN NoDate
             ELSE Scan(s, fmt, k + 1, p + n,
                       IF fmt[k] \in {"%d", "%m", "%Y"}
                       THEN [found EXCEPT ![fmt[k]] = NumberOf(SubSeq(s, p, p + n - 1))]
                       ELSE found)

IsLeap(y) == (y % 4 = 0 /\ y % 100 # 0) \/ y % 400 = 0

DaysInMonth(y, m) ==
    IF m = 2 THEN (IF IsLeap(y) THEN 29 ELSE 28)
    ELSE IF m \in {4, 6, 9, 11} THEN 30 ELSE 31

\* datetime.strptime(s, fmt): the date, or NoDate where it raises ValueError
Strptime(s, fmt) ==
    LET f == Scan(s, fmt, 1, 1, [d \in {"%d", "%m", "%Y"} |-> 0])
    IN  IF f = NoDate THEN NoDate
        ELSE IF f["%Y"] < 1 \/ f["%d"] > DaysInMonth(f["%Y"], f["%m"]) THEN NoDate
        ELSE <<f["%Y"], f["%m"], f["%d"]>>

\* a <= b on dates
DateLeq(a, b) ==
    \/ a[1] < b[1]
    \/ a[1] = b[1] /\ a[2] < b[2]
    \/ a[1] = b[1] /\ a[2] = b[2] /\ a[3] <= b[3]

RECURSIVE DateLoopKeepTrying(_, _, _)
\* the loop with a future date falling through to the next format
DateLoopKeepTrying(s, k, now) ==
    IF k > Len(Formats) THEN "False"
    ELSE LET date == Strptime(s, Formats[k])
         IN  IF date # NoDate /\ DateLeq(date, now) THEN "True"
             ELSE DateLoopKeepTrying(s, k + 1, now)

RECURSIVE DateLoop(_, _, _)
\* the loop `for fmt in formats` from the k-th format on
DateLoop(s, k, now) ==
    IF k > Len(Formats) THEN "False"
    ELSE LET date == Strptime(s, Formats[k])
         IN  IF date # NoDate
             THEN (IF DateLeq(date, now) THEN "True" ELSE "False")
             ELSE DateLoop(s, k + 1, now)

ValidateDate(date_str, now) == DateLoop(Strip(date_str), 1, now)

---------------------------------------------------------------------------
(* _calculate_risk_score and _get_risk_level                               *)

InvalidWeight == 25
WarningWeight == 10
FlagWeight == 15
MaxScore == 100
LowMax == 20
MediumMax == 50
HighMax == 75

Min(a, b) == IF a < b THEN a ELSE b

\* the score without `min(score, 100)`
CalculateRiskScoreUnclamped(v, fa) ==
    Len(v.invalid_fields) * InvalidWeight + Len(v.warnings) * WarningWeight
    + Len(fa.flags) * FlagWeight

CalculateRiskScore(v, fa) ==
    LET invalid_count == Len(v.invalid_fields)
        warning_count == Len(v.warnings)
        flag_count == Len(fa.flags)
    IN  Min(invalid_count * InvalidWeight + warning_count * WarningWeight
            + flag_count * FlagWeight, MaxScore)

\* the bands written with `<` for `<=`
GetRiskLevelStrict(score) ==
    IF score < LowMax THEN "BAIXO"
    ELSE IF score < MediumMax THEN "MEDIO"
    ELSE IF score < HighMax THEN "ALTO"
    ELSE "CRITICO"

GetRiskLevel(score) ==
    IF score <= LowMax THEN "BAIXO"
    ELSE IF score <= MediumMax THEN "MEDIO"
    ELSE IF score <= HighMax THEN "ALTO"
    ELSE "CRITICO"

---------------------------------------------------------------------------
(* The state of main() while no request runs                               *)

None == <<>>

UiRest ==
    /\ doc_client = FALSE
    /\ openai_client = FALSE
    /\ tmp_files = {}
    /\ extracted_data = None
    /\ validation = None
    /\ fraud_analysis = None
    /\ result = None
    /\ error = "none"
    /\ displayed = {}
    /\ calls = <<0, 0>>

UiIdle ==
    /\ pc = "off"
    /\ UiRest

---------------------------------------------------------------------------
(* _validate_cpf called on its own                                         *)

FreePrefix == 2

ReferenceCpf == <<"1", "1", "1", "4", "4", "4", "7", "7", "7", "3", "5">>

DigitSet == {DecimalDigits[k] : k \in 1..10}

\* 11-digit strings: the first FreePrefix digits and the two check digits are
\* free, the digits between are those of the reference CPF
CpfInputs ==
    {pre \o SubSeq(ReferenceCpf, FreePrefix + 1, 9) \o chk :
        pre \in [1..FreePrefix -> DigitSet], chk \in [1..2 -> DigitSet]}

InitCpf ==
    /\ UiIdle
    /\ \E s \in CpfInputs : arg = [fn |-> "validate_cpf", orig |-> s, cpf |-> s, pos |-> -1]
    /\ ret = <<>>

CallValidateCpf ==
    /\ pc = "off"
    /\ arg.fn = "validate_cpf"
    /\ ret = <<>>
    /\ ret' = <<ValidateCpf(arg.cpf)>>
    /\ UNCHANGED <<arg, uiVars>>

\* replace the digit at one 0-based position of an accepted string
AlterDigit ==
    /\ pc = "off"
    /\ arg.fn = "validate_cpf"
    /\ arg.pos = -1
    /\ ret = <<"True">>
    /\ \E p \in 0..10, d \in DigitSet :
          /\ d # arg.orig[p + 1]
          /\ arg' = [arg EXCEPT !.cpf = [arg.orig EXCEPT ![p + 1] = d], !.pos = p]
    /\ ret' = <<>>
    /\ UNCHANGED uiVars

NextCpf == CallValidateCpf \/ AlterDigit

SpecCpf == InitCpf /\ [][NextCpf]_vars

---------------------------------------------------------------------------
(* _validate_date called on its own                                        *)

DayMonthFields == {<<"1">>, <<"0", "2">>, <<"0", "4">>, <<"1", "2">>,
                   <<"1", "3">>, <<"2", "9">>, <<"3", "1">>}

YearFields == {<<"2", "0", "2", "0">>, <<"2", "0", "2", "6">>,
               <<"2", "0", "2", "7">>, <<"2", "0", "2", "8">>}

Separators == {"/", "-"}

\* texts that fit no layout, or fit one only in part
OddDates == {<<>>, <<" ">>, <<"a", "b", "c">>,
             <<"2", "0", "2", "0", "-", "0", "1", "-", " ", "5">>,
             <<"0", "0", "0", "0", "-", "0", "1", "-", "0", "1">>,
             <<"0", "1", "/", "0", "1", "/", "2", "0", "2", "0", "1">>,
             <<"0", "1", "/", "0", "1", "/", "²", "0", "2", "0">>,
             <<"0", "1", "/", "0", "1", "-", "2", "0", "2", "0">>}

DateInputs ==
    LET plain ==
            {a \o <<sep>> \o b \o <<sep>> \o c :
                a \in DayMonthFields, b \in DayMonthFields, c \in YearFields,
                sep \in Separators}
            \cup
            {a \o <<sep>> \o b \o <<sep>> \o c :
                a \in YearFields, b \in DayMonthFields, c \in DayMonthFields,
                sep \in Separators}
    IN  plain \cup {<<" ">> \o s \o <<" ">> : s \in plain} \cup OddDates

\* dates of datetime.now()
Clock == {<<2020, 1, 1>>, <<2026, 4, 2>>, <<2027, 12, 31>>}

InitDate ==
    /\ UiIdle
    /\ \E s \in DateInputs, n \in Clock :
          arg = [fn |-> "validate_date", date_str |-> s, now |-> n]
    /\ ret = <<>>

CallValidateDate ==
    /\ pc = "off"
    /\ arg.fn = "validate_date"
    /\ ret = <<>>
    /\ ret' = <<ValidateDate(arg.date_str, arg.now)>>
    /\ UNCHANGED <<arg, uiVars>>

NextDate == CallValidateDate

SpecDate == InitDate /\ [][NextDate]_vars

---------------------------------------------------------------------------
(* _calculate_risk_score and _get_risk_level called on their own           *)

MaxCount == 5

\* a list of n entries
ListOf(n) == [k \in 1..n |-> <<"x", <<>> >>]

InitScore ==
    /\ UiIdle
    /\ \E i \in 0..MaxCount, w \in 0..MaxCount, f \in 0..MaxCount :
          arg = [fn |-> "calculate_risk_score",
                 validation |-> [valid_fields |-> <<>>, invalid_fields |-> ListOf(i),
                                 warnings |-> ListOf(w)],
                 fraud_analysis |-> [analysis |-> "text", flags |-> ListOf(f)]]
    /\ ret = <<>>

CallCalculateRiskScore ==
    /\ pc = "off"
    /\ arg.fn = "calculate_risk_score"
    /\ ret = <<>>
    /\ ret' = <<CalculateRiskScore(arg.validation, arg.fraud_analysis)>>
    /\ UNCHANGED <<arg, uiVars>>

NextScore == CallCalculateRiskScore

SpecScore == InitScore /\ [][NextScore]_vars

InitLevel ==
    /\ UiIdle
    /\ \E score \in 0..MaxScore : arg = [fn |-> "get_risk_level", score |-> score]
    /\ ret = <<>>

CallGetRiskLevel ==
    /\ pc = "off"
    /\ arg.fn = "get_risk_level"
    /\ ret = <<>>
    /\ ret' = <<GetRiskLevel(arg.score)>>
    /\ UNCHANGED <<arg, uiVars>>

NextLevel == CallGetRiskLevel

SpecLevel == InitLevel /\ [][NextLevel]_vars

---------------------------------------------------------------------------
(* _extract_document_data, _validate_fields, _analyze_fraud_patterns       *)

MaxPairs == 3

Text(pair) == pair[2]

ValidCpfText == <<"1", "1", "1", ".", "4", "4", "4", ".", "7", "7", "7", "-", "3", "5">>
RaisingCpfText == <<"²", "1", "1", "4", "4", "4", "7", "7", "7", "3", "5">>
CnpjText == <<"1", "1", "4", "4", "4", "7", "7", "7", "0", "0", "0", "1", "6", "1">>
PastDateText == <<"0", "1", "/", "0", "1", "/", "2", "0", "2", "0">>
FutureDateText == <<"3", "1", "/", "1", "2", "/", "2", "0", "3", "0">>

KeyCpf == <<"C", "P", "F">>
KeyCnpjCpf == <<"C", "n", "p", "j", "/", "c", "p", "f">>
KeyCnpj == <<"D", "a", "t", "a", " ", "C", "N", "P", "J">>
KeyData == <<"D", "a", "t", "a">>
KeyUpdate == <<"U", "p", "d", "a", "t", "e">>

\* pair.key / pair.value of the extraction result: <<"some", text>>, or
\* <<"none">> where the service found no key or no value
Some(t) == <<"some", t>>
Absent == <<"none">>

\* the (key, value) pairs the extraction service may report
OcrPairs ==
    { <<Absent, Some(ValidCpfText)>>,
      <<Some(KeyCpf), Some(ValidCpfText)>>,
      <<Some(KeyCpf), Some(PastDateText)>>,
      <<Some(KeyCnpjCpf), Some(CnpjText)>>,
      <<Some(KeyCnpjCpf), Some(RaisingCpfText)>>,
      <<Some(KeyCnpj), Some(CnpjText)>>,
      <<Some(KeyCnpj), Absent>>,
      <<Some(KeyData), Some(PastDateText)>>,
      <<Some(KeyData), Some(ValidCpfText)>>,
      <<Some(KeyUpdate), Some(FutureDateText)>> }

\* result.key_value_pairs: up to MaxPairs pairs, keys may repeat
OcrResults == UNION {[1..n -> OcrPairs] : n \in 0..MaxPairs}

UnknownKey == <<"u", "n", "k", "n", "o", "w", "n">>

\* dict[key] = value: a new key goes last, a known key keeps its place
DictSet(d, key, value) ==
    IF \E k \in 1..Len(d) : d[k][1] = key
    THEN [k \in 1..Len(d) |-> IF d[k][1] = key THEN <<key, value>> ELSE d[k]]
    ELSE Append(d, <<key, value>>)

RECURSIVE CollectPairs(_, _)
\* the loop `for pair in result.key_value_pairs` over the first n pairs
CollectPairs(pairs, n) ==
    IF n = 0 THEN <<>>
    ELSE LET pair == pairs[n]
             key == IF pair[1] # Absent THEN Text(pair[1]) ELSE UnknownKey
             value == IF pair[2] # Absent THEN Text(pair[2]) ELSE <<>>
         IN  DictSet(CollectPairs(pairs, n - 1), key, value)

NotConfiguredData == [error |-> "Document Intelligence client nao configurado"]

\* what _extract_document_data returns for an extraction result (no tables)
ExtractedFrom(pairs) ==
    [key_value_pairs |-> CollectPairs(pairs, Len(pairs)),
     tables |-> <<>>, entities |-> <<>>]

\* extracted_data.get("key_value_pairs", {})
KeyValuePairs(data) ==
    IF "key_value_pairs" \in DOMAIN data THEN data.key_value_pairs ELSE <<>>

EmptyResults == [valid_fields |-> <<>>, invalid_fields |-> <<>>, warnings |-> <<>>]

\* the iteration with the "cnpj" test written before the "cpf" test
ValidatePairCnpjFirst(results, key, value, now) ==
    LET key_lower == Lower(key)
        put(bucket, label) ==
            [raised |-> "none",
             results |-> [results EXCEPT ![bucket] = Append(@, <<label, value>>)]]
        route(outcome, okLabel, badBucket, badLabel) ==
            CASE outcome = "True" -> put("valid_fields", okLabel)
              [] outcome = "False" -> put(badBucket, badLabel)
              [] OTHER -> [raised |-> outcome, results |-> results]
    IN  IF Contains(key_lower, <<"c", "n", "p", "j">>)
        THEN route(ValidateCnpj(value), "CNPJ: ", "invalid_fields", "CNPJ invalido: ")
        ELSE IF Contains(key_lower, <<"c", "p", "f">>)
        THEN route(ValidateCpf(value), "CPF: ", "invalid_fields", "CPF invalido: ")
        ELSE IF Contains(key_lower, <<"d", "a", "t", "a">>)
                \/ Contains(key_lower, <<"d", "a", "t", "e">>)
        THEN route(ValidateDate(value, now), "Data: ", "warnings", "Data suspeita: ")
        ELSE [raised |-> "none", results |-> results]

\* one iteration of the loop of _validate_fields: the results after the pair,
\* or the exception the validator raised
ValidatePair(results, key, value, now) ==
    LET key_lower == Lower(key)
        put(bucket, label) ==
            [raised |-> "none",
             results |-> [results EXCEPT ![bucket] = Append(@, <<label, value>>)]]
        route(outcome, okLabel, badBucket, badLabel) ==
            CASE outcome = "True" -> put("valid_fields", okLabel)
              [] outcome = "False" -> put(badBucket, badLabel)
              [] OTHER -> [raised |-> outcome, results |-> results]
    IN  IF Contains(key_lower, <<"c", "p", "f">>)
        THEN route(ValidateCpf(value), "CPF: ", "invalid_fields", "CPF invalido: ")
        ELSE IF Contains(key_lower, <<"c", "n", "p", "j">>)
        THEN route(ValidateCnpj(value), "CNPJ: ", "invalid_fields", "CNPJ invalido: ")
        ELSE IF Contains(key_lower, <<"d", "a", "t", "a">>)
                \/ Contains(key_lower, <<"d", "a", "t", "e">>)
        THEN route(ValidateDate(value, now), "Data: ", "warnings", "Data suspeita: ")
        ELSE [raised |-> "none", results |-> results]

RECURSIVE FieldsLoop(_, _, _)
\* the loop `for key, value in kvp.items()` over the first n items
FieldsLoop(kvp, n, now) ==
    IF n = 0 THEN [raised |-> "none", results |-> EmptyResults]
    ELSE LET before == FieldsLoop(kvp, n - 1, now)
         IN  IF before.raised # "none" THEN before
             ELSE ValidatePair(before.results, kvp[n][1], kvp[n][2], now)

ValidateFields(data, now) ==
    LET kvp == KeyValuePairs(data)
    IN  FieldsLoop(kvp, Len(kvp), now)

NotConfiguredText == "OpenAI client nao configurado"

\* response.choices[0].message.content
Narratives == {"nivel de suspeita: baixo", "nivel de suspeita: alto"}

FraudNotConfigured == [analysis |-> NotConfiguredText, flags |-> <<>>]

\* flags read off the narrative instead of copied from the validation
FraudAnalysisOfNarrative(v, content) ==
    [analysis |-> content,
     flags |-> IF content = "nivel de suspeita: alto" THEN v.invalid_fields ELSE <<>>]

FraudAnalysisOf(v, content) == [analysis |-> content, flags |-> v.invalid_fields]

\* the report with the score taken from the validation alone
ReportIgnoringFlags(path, data, v, fa) ==
    LET risk_score == CalculateRiskScore(v, [analysis |-> "", flags |-> <<>>])
    IN  [document |-> path, extracted_data |-> data, validation |-> v,
         fraud_analysis |-> fa, risk_score |-> risk_score,
         risk_level |-> GetRiskLevel(risk_score)]

\* the dictionary analyze_document returns (its timestamp left out)
Report(path, data, v, fa) ==
    LET risk_score == CalculateRiskScore(v, fa)
    IN  [document |-> path, extracted_data |-> data, validation |-> v,
         fraud_analysis |-> fa, risk_score |-> risk_score,
         risk_level |-> GetRiskLevel(risk_score)]

---------------------------------------------------------------------------
(* main() of app.py handling one click on "Analisar Documento"             *)

TmpPath == "tmp1"

Init ==
    /\ pc = "start"
    /\ UiRest
    /\ arg = None
    /\ ret = <<>>

\* analyzer = DocumentAnalyzer(): the clients the environment configures
Construct ==
    /\ pc = "start"
    /\ doc_client' \in BOOLEAN
    /\ openai_client' \in BOOLEAN
    /\ pc' = "write_tmp"
    /\ UNCHANGED <<tmp_files, extracted_data, validation, fraud_analysis, result,
                   error, displayed, calls, fnVars>>

\* the NamedTemporaryFile(delete=False) block
WriteTemp ==
    /\ pc = "write_tmp"
    /\ tmp_files' = tmp_files \cup {TmpPath}
    /\ pc' = "extract"
    /\ UNCHANGED <<doc_client, openai_client, extracted_data, validation,
                   fraud_analysis, result, error, displayed, calls, fnVars>>

ExtractNotConfigured ==
    /\ pc = "extract"
    /\ ~doc_client
    /\ extracted_data' = NotConfiguredData
    /\ pc' = "validate"
    /\ UNCHANGED <<doc_client, openai_client, tmp_files, validation, fraud_analysis,
                   result, error, displayed, calls, fnVars>>

ExtractSucceeds ==
    /\ pc = "extract"
    /\ doc_client
    /\ \E pairs \in OcrResults : extracted_data' = ExtractedFrom(pairs)
    /\ calls' = [calls EXCEPT ![1] = @ + 1]
    /\ pc' = "validate"
    /\ UNCHANGED <<doc_client, openai_client, tmp_files, validation, fraud_analysis,
                   result, error, displayed, fnVars>>

\* begin_analyze_document or poller.result() raises
ExtractFails ==
    /\ pc = "extract"
    /\ doc_client
    /\ calls' = [calls EXCEPT ![1] = @ + 1]
    /\ error' = "ExtractionError"
    /\ pc' = "except"
    /\ UNCHANGED <<doc_client, openai_client, tmp_files, extracted_data, validation,
                   fraud_analysis, result, displayed, fnVars>>

Validate ==
    /\ pc = "validate"
    /\ \E now \in Clock :
          LET out == ValidateFields(extracted_data, now)
          IN  IF out.raised = "none"
              THEN /\ validation' = out.results
                   /\ pc' = "fraud"
                   /\ error' = error
              ELSE /\ validation' = validation
                   /\ pc' = "except"
                   /\ error' = out.raised
    /\ UNCHANGED <<doc_client, openai_client, tmp_files, extracted_data,
                   fraud_analysis, result, displayed, calls, fnVars>>

FraudNotConfiguredStep ==
    /\ pc = "fraud"
    /\ ~openai_client
    /\ fraud_analysis' = FraudNotConfigured
    /\ pc' = "report"
    /\ UNCHANGED <<doc_client, openai_client, tmp_files, extracted_data, validation,
                   result, error, displayed, calls, fnVars>>

FraudSucceeds ==
    /\ pc = "fraud"
    /\ openai_client
    /\ \E content \in Narratives : fraud_analysis' = FraudAnalysisOf(validation, content)
    /\ calls' = [calls EXCEPT ![2] = @ + 1]
    /\ pc' = "report"
    /\ UNCHANGED <<doc_client, openai_client, tmp_files, extracted_data, validation,
                   result, error, displayed, fnVars>>

\* a failed generation call answered with the not-configured fallback
FraudFailsSwallowed ==
    /\ pc = "fraud"
    /\ openai_client
    /\ calls' = [calls EXCEPT ![2] = @ + 1]
    /\ error' = "GenerationError"
    /\ fraud_analysis' = [analysis |-> "OpenAI client nao configurado", flags |-> <<>>]
    /\ pc' = "report"
    /\ UNCHANGED <<doc_client, openai_client, tmp_files, extracted_data, validation,
                   result, displayed, fnVars>>

\* chat.completions.create raises, or its response has no choice to read
FraudFails ==
    /\ pc = "fraud"
    /\ openai_client
    /\ calls' = [calls EXCEPT ![2] = @ + 1]
    /\ error' = "GenerationError"
    /\ pc' = "except"
    /\ UNCHANGED <<doc_client, openai_client, tmp_files, extracted_data, validation,
                   fraud_analysis, result, displayed, fnVars>>

\* the score, the level and the return of analyze_document
ReturnReport ==
    /\ pc = "report"
    /\ result' = Report(TmpPath, extracted_data, validation, fraud_analysis)
    /\ pc' = "unlink"
    /\ UNCHANGED <<doc_client, openai_client, tmp_files, extracted_data, validation,
                   fraud_analysis, error, displayed, calls, fnVars>>

\* what main() renders for a report
Widgets(r) ==
    {"risk_score", "risk_level", "counts", "analysis", "extracted_data", "download"}
    \cup (IF r.validation.valid_fields # <<>> THEN {"valid_fields"} ELSE {})
    \cup (IF r.validation.invalid_fields # <<>> THEN {"invalid_fields"} ELSE {})
    \cup (IF r.validation.warnings # <<>> THEN {"warnings"} ELSE {})

\* os.unlink(tmp_path) and the rendering of the report
UnlinkAndRender ==
    /\ pc = "unlink"
    /\ tmp_files' = tmp_files \ {TmpPath}
    /\ displayed' = displayed \cup Widgets(result)
    /\ pc' = "done"
    /\ UNCHANGED <<doc_client, openai_client, extracted_data, validation,
                   fraud_analysis, result, error, calls, fnVars>>

\* except Exception as e: st.error(...)
HandleException ==
    /\ pc = "except"
    /\ displayed' = displayed \cup {"erro_na_analise"}
    /\ pc' = "done"
    /\ UNCHANGED <<doc_client, openai_client, tmp_files, extracted_data, validation,
                   fraud_analysis, result, error, calls, fnVars>>

Next ==
    \/ Construct
    \/ WriteTemp
    \/ ExtractNotConfigured
    \/ ExtractSucceeds
    \/ ExtractFails
    \/ Validate
    \/ FraudNotConfiguredStep
    \/ FraudSucceeds
    \/ FraudFails
    \/ ReturnReport
    \/ UnlinkAndRender
    \/ HandleException

Spec == Init /\ [][Next]_vars

\* main() together with _get_risk_level called on its own
InitRisk == Init \/ InitLevel

NextRisk == Next \/ NextLevel

SpecRisk == InitRisk /\ [][NextRisk]_vars

---------------------------------------------------------------------------
(* Claims                                                                  *)

\* C1 as stated: for every 11-digit string _validate_cpf accepts, the string
\* with the digit at any one position 0..10 replaced by a different digit is
\* rejected.
C1_AnyAlterationRejected ==
    (arg.pos # -1 /\ ret # <<>>) => ret = <<"False">>

\* C1 as amended: for every 11-digit string _validate_cpf accepts, the string
\* with the digit at any one position other than 0 and 5 replaced by a
\* different digit is rejected; for "11144477735" this holds at every
\* position 0..10.
C1_AlterationRejectedOutsideWeakPositions ==
    (arg.pos # -1 /\ ret # <<>> /\ (arg.pos \notin {0, 5} \/ arg.orig = ReferenceCpf))
        => ret = <<"False">>

C1_Witness ==
    /\ arg.orig = ReferenceCpf
    /\ arg.pos = 0
    /\ ret = <<"False">>

\* C2: no validator raises, so _validate_fields never aborts with an
\* exception on a malformed value.
C2_ValidatorsNeverRaise == error # "ValueError"

\* C3: for lists of i invalid fields, w warnings and f flags,
\* _calculate_risk_score returns min(100, 25*i + 10*w + 15*f), an integer in
\* 0..100 that is 100 whenever the sum exceeds 100.
C3_ScoreIsClampedWeightedSum ==
    ret # <<>> =>
        LET i == Len(arg.validation.invalid_fields)
            w == Len(arg.validation.warnings)
            f == Len(arg.fraud_analysis.flags)
            sum == 25 * i + 10 * w + 15 * f
        IN  /\ ret[1] \in 0..100
            /\ sum <= 100 => ret[1] = sum
            /\ sum > 100 => ret[1] = 100

C3_Witness ==
    /\ ret = <<100>>
    /\ Len(arg.validation.invalid_fields) = 5
    /\ Len(arg.fraud_analysis.flags) = 0

\* the band C4 gives a score
C4_Band(level, score) ==
    /\ level \in {"BAIXO", "MEDIO", "ALTO", "CRITICO"}
    /\ level = "BAIXO" <=> score <= 20
    /\ level = "MEDIO" <=> (21 <= score /\ score <= 50)
    /\ level = "ALTO" <=> (51 <= score /\ score <= 75)
    /\ level = "CRITICO" <=> score > 75

\* C4: for every score in 0..100 _get_risk_level returns BAIXO iff score <= 20,
\* MEDIO iff 21..50, ALTO iff 51..75, CRITICO iff > 75, and the risk_level of
\* every report analyze_document returns is that band of its risk_score.
C4_LevelIsBandOfScore ==
    /\ (pc = "off" /\ ret # <<>>) => C4_Band(ret[1], arg.score)
    /\ result # None => C4_Band(result.risk_level, result.risk_score)

C4_Witness ==
    /\ pc = "done"
    /\ result # None
    /\ result.risk_score = 50
    /\ result.risk_level = "MEDIO"

\* the validator a key is routed to: "cpf" first, then "cnpj", then a date
C5_Kind(key) ==
    LET low == Lower(key)
    IN  IF Contains(low, <<"c", "p", "f">>) THEN "cpf"
        ELSE IF Contains(low, <<"c", "n", "p", "j">>) THEN "cnpj"
        ELSE IF Contains(low, <<"d", "a", "t", "a">>) \/ Contains(low, <<"d", "a", "t", "e">>)
        THEN "date"
        ELSE "none"

\* the label C5 gives a pair: bucket and prefix, <<"none", "">> when the key
\* matches nothing
C5_Label(pair, now) ==
    LET kind == C5_Kind(pair[1])
    IN  CASE kind = "cpf" ->
                 IF ValidateCpf(pair[2]) = "True" THEN <<"valid_fields", "CPF: ">>
                 ELSE <<"invalid_fields", "CPF invalido: ">>
          [] kind = "cnpj" ->
                 IF ValidateCnpj(pair[2]) = "True" THEN <<"valid_fields", "CNPJ: ">>
                 ELSE <<"invalid_fields", "CNPJ invalido: ">>
          [] kind = "date" ->
                 IF ValidateDate(pair[2], now) = "True" THEN <<"valid_fields", "Data: ">>
                 ELSE <<"warnings", "Data suspeita: ">>
          [] OTHER -> <<"none", "">>

RECURSIVE C5_Labels(_, _, _)
\* the labels of the first n pairs
C5_Labels(kvp, now, n) ==
    IF n = 0 THEN <<>>
    ELSE Append(C5_Labels(kvp, now, n - 1), C5_Label(kvp[n], now))

RECURSIVE C5_Entries(_, _, _, _)
\* the entries of one bucket among the first n pairs, in the order of the
\* pairs; labels[k] is the label of the k-th pair
C5_Entries(kvp, labels, bucket, n) ==
    IF n = 0 THEN <<>>
    ELSE LET rest == C5_Entries(kvp, labels, bucket, n - 1)
         IN  IF labels[n][1] = bucket
             THEN Append(rest, <<labels[n][2], kvp[n][2]>>)
             ELSE rest

\* C5: when _validate_fields returns, each pair whose key matches "cpf", else
\* "cnpj", else "data"/"date" (any letter case) has exactly one entry in exactly
\* one bucket (a CPF or CNPJ failure in invalid_fields, a date failure in
\* warnings, a pass in valid_fields), other pairs have none, each bucket is in
\* the order of key_value_pairs, and the bucket lengths sum to the number of
\* matching pairs.
C5_FieldsRoutedByKey ==
    validation # None =>
        LET kvp == KeyValuePairs(extracted_data)
        IN  /\ \E now \in Clock :
                  LET labels == C5_Labels(kvp, now, Len(kvp))
                  IN  \A bucket \in {"valid_fields", "invalid_fields", "warnings"} :
                          validation[bucket] = C5_Entries(kvp, labels, bucket, Len(kvp))
            /\ Len(validation.valid_fields) + Len(validation.invalid_fields)
                   + Len(validation.warnings)
               = Cardinality({k \in 1..Len(kvp) : C5_Kind(kvp[k][1]) # "none"})

C5_Witness ==
    /\ validation # None
    /\ Len(KeyValuePairs(extracted_data)) = 3
    /\ \E k \in 1..3 : KeyValuePairs(extracted_data)[k][1] = KeyCnpjCpf
    /\ \E k \in 1..3 : KeyValuePairs(extracted_data)[k][1] = UnknownKey
    /\ validation.warnings # <<>>
    /\ validation.invalid_fields # <<>>

\* C6: without a text-generation client _analyze_fraud_patterns returns the
\* analysis "OpenAI client nao configurado" with no flags and calls no
\* collaborator; with a client whose call succeeds the flags are
\* validation.invalid_fields, whatever the narrative says.
C6_FlagsCopiedFromValidation ==
    fraud_analysis # None =>
        IF openai_client
        THEN fraud_analysis.flags = validation.invalid_fields
        ELSE /\ fraud_analysis = [analysis |-> "OpenAI client nao configurado",
                                  flags |-> <<>>]
             /\ calls[2] = 0

C6_Witness ==
    /\ openai_client
    /\ fraud_analysis # None
    /\ fraud_analysis.analysis = "nivel de suspeita: baixo"
    /\ Len(fraud_analysis.flags) = 2

\* C7: when a configured collaborator call fails, analyze_document returns no
\* report (the call is not repeated, nothing computed after it, no fallback
\* value put in its place), main() catches the exception and shows it as an
\* error message, and shows no risk score and no risk level.
C7_CollaboratorFailureAborts ==
    error \in {"ExtractionError", "GenerationError"} =>
        /\ pc \in {"except", "done"}
        /\ result = None
        /\ error = "ExtractionError" => (extracted_data = None /\ calls = <<1, 0>>)
        /\ error = "GenerationError" => (fraud_analysis = None /\ calls[2] = 1)
        /\ calls[1] <= 1
        /\ displayed \cap {"risk_score", "risk_level"} = {}
        /\ pc = "done" => displayed = {"erro_na_analise"}

C7_Witness ==
    /\ pc = "done"
    /\ error = "GenerationError"
    /\ displayed = {"erro_na_analise"}

\* the layouts in the order C8 gives them
C8_Layouts == << <<"%d", "/", "%m", "/", "%Y">>,
                 <<"%Y", "-", "%m", "-", "%d">>,
                 <<"%d", "-", "%m", "-", "%Y">>,
                 <<"%m", "/", "%d", "/", "%Y">> >>

C8_Digits(n, width) ==
    [k \in 1..width |->
        DecimalDigits[((n \div (IF width - k = 0 THEN 1
                                ELSE IF width - k = 1 THEN 10
                                ELSE IF width - k = 2 THEN 100 ELSE 1000)) % 10) + 1]]

\* the date written in a layout (zero-padded, as strftime writes it)
C8_Written(date, layout) ==
    LET part(d) == CASE d = "%Y" -> C8_Digits(date[1], 4)
                     [] d = "%m" -> C8_Digits(date[2], 2)
                     [] d = "%d" -> C8_Digits(date[3], 2)
                     [] OTHER -> <<d>>
    IN  part(layout[1]) \o part(layout[2]) \o part(layout[3]) \o part(layout[4])
        \o part(layout[5])

C8_StrictlyAfter(a, b) ==
    \/ a[1] > b[1]
    \/ a[1] = b[1] /\ a[2] > b[2]
    \/ a[1] = b[1] /\ a[2] = b[2] /\ a[3] > b[3]

\* C8: _validate_date tries day/month/year, year-month-day, day-month-year,
\* month/day/year in that order on the stripped text; the first layout that
\* parses decides alone: true iff its date is not after the current moment;
\* false when no layout parses, and false for the date one year ahead written
\* in any of the four layouts.
C8_FirstParsingLayoutDecides ==
    ret # <<>> =>
        LET text == Strip(arg.date_str)
            parsing == {k \in 1..4 : Strptime(text, C8_Layouts[k]) # NoDate}
            first == CHOOSE k \in parsing : \A j \in parsing : k <= j
            ahead == <<arg.now[1] + 1, arg.now[2], arg.now[3]>>
        IN  /\ parsing = {} => ret[1] = "False"
            /\ parsing # {} =>
                  ret[1] = (IF C8_StrictlyAfter(Strptime(text, C8_Layouts[first]), arg.now)
                            THEN "False" ELSE "True")
            /\ \A k \in 1..4 : text = C8_Written(ahead, C8_Layouts[k]) => ret[1] = "False"

\* "1/12/2026" on 2 April 2026: 1 December as day/month, 12 January as month/day
C8_Witness ==
    /\ arg.date_str = <<"1", "/", "1", "2", "/", "2", "0", "2", "6">>
    /\ arg.now = <<2026, 4, 2>>
    /\ Strptime(arg.date_str, C8_Layouts[4]) = <<2026, 1, 12>>
    /\ ret = <<"False">>

\* C9: in every report the flags are empty (no text-generation client) or
\* equal to validation.invalid_fields (client configured), so the risk_score
\* is min(100, 25*i + 10*w), respectively min(100, 40*i + 10*w); with no
\* key_value_pairs or no extraction client the buckets are empty, the score
\* is 0 and the level BAIXO.
C9_ReportScoreFromCounts ==
    result # None =>
        LET i == Len(result.validation.invalid_fields)
            w == Len(result.validation.warnings)
            sum == (IF openai_client THEN 40 ELSE 25) * i + 10 * w
        IN  /\ result.fraud_analysis.flags
                   = (IF openai_client THEN result.validation.invalid_fields ELSE <<>>)
            /\ result.risk_score = (IF sum > 100 THEN 100 ELSE sum)
            /\ (~doc_client \/ KeyValuePairs(result.extracted_data) = <<>>) =>
                  /\ result.validation
                         = [valid_fields |-> <<>>, invalid_fields |-> <<>>, warnings |-> <<>>]
                  /\ result.risk_score = 0
                  /\ result.risk_level = "BAIXO"

C9_Witness ==
    /\ result # None
    /\ openai_client
    /\ Len(result.validation.invalid_fields) = 3
    /\ result.risk_score = 100

\* C10: the temporary file main() created is deleted by the time the handling
\* of the request ends, whether analyze_document returned or raised.
C10_TempFileDeleted == pc = "done" => tmp_files = {}

===========================================================================
